---------------------------- MODULE Spec2Model ----------------------------
(***************************************************************************)
(* Model of scheduler.py: the weekly schedule document (winter2025.json),  *)
(* the alias map of config.json, and the operations add_event_to_json,     *)
(* update_json_schedule, delete_event, check_for_overlap, expand_schedule, *)
(* sort_schedule, load_schedule, load_aliases, calculate_duration and      *)
(* adjust_schedule, with load_preferences, calculate_duration and          *)
(* save_new_event of schedule_gui.py.  files tells which of the two files  *)
(* are on disk.                                                            *)
(*                                                                         *)
(* A time string "%I:%M %p" is the record [h, mi, pm, z]: the 12-hour      *)
(* hour, the minute, the AM/PM mark and whether the hour is written with   *)
(* a leading zero ("09:00 PM" against "9:00 PM").  A datetime is a number  *)
(* of minutes since the midnight of 1900-01-01 (what strptime returns).    *)
(* An event [timeRange, label] is the record [s, e, label, tmp]: the       *)
(* start string, the end string (NoTime when the range has no " - " part), *)
(* the label and whether the label carries the "##TEMP##" marker.          *)
(* Python objects are modelled with their identity: a heap of list objects *)
(* (sequences of event ids) and of event objects.                          *)
(***************************************************************************)
EXTENDS Integers, Sequences, FiniteSets, TLC

VARIABLES doc, aliases, pre, last, files

vars == <<doc, aliases, pre, last, files>>

(***************************** bounds **************************************)
\* longest day list the model lets an operation start from
MaxLen == 2

(***************************** constants ***********************************)
DayStartHour == 5
OvernightEndHour == 18
MinutesPerDay == 1440

(***************************** time strings ********************************)
NoTime == [h |-> 0, mi |-> 0, pm |-> FALSE, z |-> FALSE]

\* datetime.datetime.strptime(t, "%I:%M %p"): minutes since midnight
strptime(t) == (((t.h % 12) + (IF t.pm THEN 12 ELSE 0)) * 60) + t.mi

\* dt.hour
HourOf(dt) == (dt % MinutesPerDay) \div 60

\* dt.strftime("%I:%M %p"): the hour is always written with two digits
strftime(dt) ==
    LET h24 == HourOf(dt)
        h12 == IF h24 % 12 = 0 THEN 12 ELSE h24 % 12
    IN  [h |-> h12, mi |-> dt % 60, pm |-> h24 >= 12, z |-> h12 < 10]

\* the string a user types for a minute of the day: no leading zero
Typed(m) ==
    LET h24 == m \div 60
        h12 == IF h24 % 12 = 0 THEN 12 ELSE h24 % 12
    IN  [h |-> h12, mi |-> m % 60, pm |-> h24 >= 12, z |-> FALSE]

\* if dt.hour < 5: dt += datetime.timedelta(days=1)
ShiftEarly(dt) == IF HourOf(dt) < DayStartHour THEN dt + MinutesPerDay ELSE dt

\* the datetime the code compares: strptime, moved to the next day before 5 AM
LogicalDt(t) == ShiftEarly(strptime(t))


(***************************** events and the heap *************************)
\* entry[0].split(" - ")[0].strip(): the start part of a time range
StartOf(ev) == ev.s

\* " - " in entry[0]: the time range has an end part
HasEnd(ev) == ev.e # NoTime

\* the sort key of sort_schedule's event_key
event_keyMutant(ev) == strptime(StartOf(ev))
event_key(ev) == LogicalDt(StartOf(ev))

\* a function with domain 1..n as a sequence value
AsSeq(f) == SubSeq(f, 1, Len(f))

RemoveAt(seq, i) == SubSeq(seq, 1, i - 1) \o SubSeq(seq, i + 1, Len(seq))

\* sorted(..., key=event_key) places an element after the elements whose key
\* is not greater (the sort is stable)
RECURSIVE InsertByKey(_, _, _)
InsertByKey(E, sortedIds, id) ==
    IF sortedIds = <<>> THEN <<id>>
    ELSE IF event_key(E[Head(sortedIds)]) <= event_key(E[id])
         THEN <<Head(sortedIds)>> \o InsertByKey(E, Tail(sortedIds), id)
         ELSE <<id>> \o sortedIds

RECURSIVE SortIds(_, _)
SortIds(E, ids) ==
    IF ids = <<>> THEN <<>>
    ELSE InsertByKey(E, SortIds(E, SubSeq(ids, 1, Len(ids) - 1)), ids[Len(ids)])

\* a new list object holding ids; the result is the heap and the object's id
AllocList(H, ids) == [H EXCEPT !.L = Append(@, ids)]
NewListId(H) == Len(H.L) + 1

\* a new event object
AllocEvent(H, ev) == [H EXCEPT !.E = Append(@, ev)]
NewEventId(H) == Len(H.E) + 1

(***************************** check_for_overlap ***************************)
\* CASE 1: the new interval covers the existing event
Case1Mutant(sdt, edt, esd, eed) == sdt < esd /\ edt > eed
Case1(sdt, edt, esd, eed) == sdt <= esd /\ edt >= eed

\* CASE 2: the new interval starts inside the existing event
Case2Mutant(sdt, edt, esd, eed) == esd < sdt /\ sdt < eed /\ edt >= eed
Case2(sdt, edt, esd, eed) == esd < sdt /\ sdt < eed

\* CASE 3: the new interval ends inside the existing event
Case3Mutant(sdt, edt, esd, eed) == esd < sdt /\ edt < eed
Case3(sdt, edt, esd, eed) == esd < edt /\ edt < eed

\* CASE 4: the existing event starts at or after the new end
Case4(sdt, edt, esd, eed) == esd >= edt

\* CASE 4's guard: only an event before 5 AM after a new end later than 6 PM
OvernightMutant(esd, edt) == TRUE
Overnight(esd, edt) == HourOf(esd) < DayStartHour /\ HourOf(edt) > OvernightEndHour

\* del schedule[day][i]; continue: i is not incremented after a removal
AfterDeleteMutant(i) == i + 1
AfterDelete(i) == i

\* the while loop of check_for_overlap over schedule[day], the list object lid
RECURSIVE OverlapLoop(_, _, _, _, _)
OverlapLoop(H, lid, i, start, end) ==
    IF i > Len(H.L[lid]) THEN H
    ELSE
      LET id    == H.L[lid][i]
          entry == H.E[id]
          sdt   == LogicalDt(start)
          edt   == LogicalDt(end)
          esd   == LogicalDt(entry.s)
          eed   == LogicalDt(entry.e)
      IN  IF ~HasEnd(entry) THEN OverlapLoop(H, lid, i + 1, start, end)
          ELSE IF Case1(sdt, edt, esd, eed)
               THEN OverlapLoop([H EXCEPT !.L[lid] = RemoveAt(@, i)], lid, AfterDelete(i),
                                start, end)
          ELSE IF Case2(sdt, edt, esd, eed)
               THEN OverlapLoop([H EXCEPT !.E[id].e = start], lid, i + 1, start, end)
          ELSE IF Case3(sdt, edt, esd, eed)
               THEN OverlapLoop([H EXCEPT !.E[id].s = end], lid, i + 1, start, end)
          ELSE IF Case4(sdt, edt, esd, eed)
               THEN IF Overnight(esd, edt)
                    THEN [H EXCEPT !.E[id].s = strftime(edt)]
                    ELSE H
          ELSE OverlapLoop(H, lid, i + 1, start, end)

check_for_overlap(H, lid, start, end) == OverlapLoop(H, lid, 1, start, end)

(***************************** the documents ********************************)
\* the keys of the schedule document, in the order of the file
KeyOrder == <<"Monday", "Wednesday", "Tuesday", "MW">>

\* a value of the document: an alias name (a template reference) or an event list
RefVal(name) == [kind |-> "ref", ref |-> name, ev |-> <<>>]
ListVal(evs) == [kind |-> "list", ref |-> "", ev |-> evs]

\* a value of a Python dict: an alias name or a list object
PyRef(name) == [kind |-> "ref", ref |-> name, id |-> 0]
PyList(lid) == [kind |-> "list", ref |-> "", id |-> lid]

Put(f, k, v) == [x \in (DOMAIN f) \cup {k} |-> IF x = k THEN v ELSE f[x]]

EmptyDict == [x \in {} |-> PyRef("")]

AliasNames(al) == {al[i].name : i \in 1..Len(al)}

\* day in mapped_days
Member(day, mapped_days) == \E i \in 1..Len(mapped_days) : mapped_days[i] = day

\* for alias, mapped_days in aliases.items(): if day in mapped_days: actual_day = alias; break
RECURSIVE ResolveFrom(_, _, _)
ResolveFrom(al, i, day) ==
    IF i > Len(al) THEN day
    ELSE IF Member(day, al[i].days) THEN al[i].name
    ELSE ResolveFrom(al, i + 1, day)

actual_day(al, day) == ResolveFrom(al, 1, day)

\* json.load: every list of the document becomes a list object of its own,
\* every event an event object of its own
RECURSIVE LoadKeys(_, _, _)
LoadKeys(d, i, st) ==
    IF i > Len(KeyOrder) THEN st
    ELSE
      LET k == KeyOrder[i]
      IN  IF k \notin DOMAIN d THEN LoadKeys(d, i + 1, st)
          ELSE IF d[k].kind = "ref"
               THEN LoadKeys(d, i + 1, [st EXCEPT !.sch = Put(@, k, PyRef(d[k].ref))])
          ELSE
            LET n   == Len(st.H.E)
                ids == AsSeq([j \in 1..Len(d[k].ev) |-> n + j])
                H1  == [L |-> Append(st.H.L, ids), E |-> st.H.E \o d[k].ev]
            IN  LoadKeys(d, i + 1, [st EXCEPT !.H = H1,
                                              !.sch = Put(@, k, PyList(Len(H1.L)))])

json_load(d) ==
    LoadKeys(d, 1, [H |-> [L |-> <<>>, E |-> <<>>], sch |-> EmptyDict, exp |-> EmptyDict])

\* the events of a dict value, read through the heap
EventsOf(H, v) == AsSeq([j \in 1..Len(H.L[v.id]) |-> H.E[H.L[v.id][j]]])

\* json.dump(schedule): the document written to the file
json_dump(st) ==
    [k \in DOMAIN st.sch |->
        IF st.sch[k].kind = "ref" THEN RefVal(st.sch[k].ref)
        ELSE ListVal(EventsOf(st.H, st.sch[k]))]

(***************************** expand_schedule *****************************)
\* schedule.get(alias, []): the ids held by the template's list object
TemplateIds(st, name) ==
    IF name \in DOMAIN st.sch /\ st.sch[name].kind = "list"
    THEN st.H.L[st.sch[name].id] ELSE <<>>

\* list(schedule.get(alias, [])): a new list object holding the SAME event objects
ListCopy(st, name) == AllocList(st.H, TemplateIds(st, name))

\* the first loop of expand_schedule, over schedule.items()
RECURSIVE ExpandDays(_, _, _)
ExpandDays(al, i, st) ==
    IF i > Len(KeyOrder) THEN st
    ELSE
      LET day == KeyOrder[i]
      IN  IF day \notin DOMAIN st.sch \/ day \in AliasNames(al)
          THEN ExpandDays(al, i + 1, st)
          ELSE IF st.sch[day].kind = "ref" /\ st.sch[day].ref \in AliasNames(al)
               THEN LET H1 == ListCopy(st, st.sch[day].ref)
                    IN  ExpandDays(al, i + 1,
                            [st EXCEPT !.H = H1, !.exp = Put(@, day, PyList(Len(H1.L)))])
          ELSE ExpandDays(al, i + 1, [st EXCEPT !.exp = Put(@, day, st.sch[day])])

\* all(day in expanded_schedule for day in mapped_days)
AllExpanded(st, mapped_days) ==
    \A j \in 1..Len(mapped_days) : mapped_days[j] \in DOMAIN st.exp

\* for alias, mapped_days in aliases.items():
\*     if all(...): schedule[alias] = expanded_schedule[mapped_days[0]]
RECURSIVE RestoreAliases(_, _, _)
RestoreAliases(al, i, st) ==
    IF i > Len(al) THEN st
    ELSE IF AllExpanded(st, al[i].days)
         THEN RestoreAliases(al, i + 1,
                  [st EXCEPT !.sch = Put(@, al[i].name, st.exp[al[i].days[1]])])
    ELSE RestoreAliases(al, i + 1, st)

expand_schedule(al, st) == RestoreAliases(al, 1, ExpandDays(al, 1, st))

\* for alias in aliases:
\*     if alias in schedule and alias not in expanded_schedule:
\*         expanded_schedule[alias] = schedule[alias]
RECURSIVE KeepTemplates(_, _, _)
KeepTemplates(al, i, st) ==
    IF i > Len(al) THEN st
    ELSE IF al[i].name \in DOMAIN st.sch /\ al[i].name \notin DOMAIN st.exp
         THEN KeepTemplates(al, i + 1,
                  [st EXCEPT !.exp = Put(@, al[i].name, st.sch[al[i].name])])
    ELSE KeepTemplates(al, i + 1, st)

(***************************** sort_schedule *******************************)
\* sort_schedule({day: events})[day]: a new list object, the same event objects
sort_day(H, lid) == AllocList(H, SortIds(H.E, H.L[lid]))

\* sort_schedule(schedule): every day's list replaced by its sorted copy
sort_schedule(d) ==
    [day \in DOMAIN d |->
        LET H0 == [L |-> <<AsSeq([j \in 1..Len(d[day].ev) |-> j])>>, E |-> d[day].ev]
            H1 == sort_day(H0, 1)
        IN  ListVal(EventsOf(H1, PyList(Len(H1.L))))]

(***************************** load_schedule *******************************)
\* final_schedule[day] = expanded_schedule.get(actual_day, tasks) for every day of
\* the expanded schedule, then sort_schedule: the events of every day, sorted
load_schedule(d, al) ==
    LET st == expand_schedule(al, json_load(d))
    IN  [day \in DOMAIN st.exp |->
            LET ad == actual_day(al, day)
                v  == IF ad \in DOMAIN st.exp THEN st.exp[ad] ELSE st.exp[day]
                H1 == sort_day(st.H, v.id)
            IN  EventsOf(H1, PyList(Len(H1.L)))]

(***************************** add_event_to_json ***************************)
\* the loading part shared by add_event_to_json and update_json_schedule:
\* json.load, expand_schedule, and the alias templates kept accessible
LoadExpanded(d, al) == KeepTemplates(al, 1, expand_schedule(al, json_load(d)))

\* expanded_schedule[actual_day].append([f"{new_start} - {new_end}", label])
AppendEventMutant(H, lid, ev) == H
AppendEvent(H, lid, ev) ==
    [H EXCEPT !.E = Append(@, ev), !.L[lid] = Append(@, Len(H.E) + 1)]

\* expanded_schedule[actual_day] = sort_schedule({actual_day: events})[actual_day],
\* the alias templates restored, schedule[actual_day] assigned, json.dump
SortRestoreDump(al, ad, st, lid) ==
    LET H1  == sort_day(st.H, lid)
        st1 == [st EXCEPT !.H = H1, !.exp = Put(@, ad, PyList(Len(H1.L)))]
        st2 == RestoreAliases(al, 1, st1)
        st3 == [st2 EXCEPT !.sch = Put(@, ad, st2.exp[ad])]
    IN  json_dump(st3)

add_event_to_json(d, al, day, new_start, new_end, new_activity) ==
    LET ad  == actual_day(al, day)
        st0 == LoadExpanded(d, al)
        \* if actual_day not in expanded_schedule: expanded_schedule[actual_day] = []
        st1 == IF ad \in DOMAIN st0.exp THEN st0
               ELSE LET H1 == AllocList(st0.H, <<>>)
                    IN  [st0 EXCEPT !.H = H1, !.exp = Put(@, ad, PyList(Len(H1.L)))]
        lid == st1.exp[ad].id
        H2  == check_for_overlap(st1.H, lid, new_start, new_end)
        H3  == AppendEvent(H2, lid, [s |-> new_start, e |-> new_end,
                                     label |-> new_activity, tmp |-> FALSE])
    IN  [out |-> "written", doc |-> SortRestoreDump(al, ad, [st1 EXCEPT !.H = H3], lid)]

(***************************** update_json_schedule ************************)
\* events[i][1] = entry[1].replace(temp_marker, "").strip() for every entry of events
StripMarkers(H, lid) ==
    [H EXCEPT !.E = AsSeq([j \in 1..Len(H.E) |->
        IF (\E i \in 1..Len(H.L[lid]) : H.L[lid][i] = j)
        THEN [H.E[j] EXCEPT !.tmp = FALSE] ELSE H.E[j]])]

update_json_schedule(d, al, day, old_start, new_start, new_end, new_activity) ==
    LET ad  == actual_day(al, day)
        st0 == LoadExpanded(d, al)
    IN  IF ad \notin DOMAIN st0.exp THEN [out |-> "nokey", doc |-> d]
        ELSE
          LET lid == st0.exp[ad].id
              \* Step 1: the new event with the temporary marker
              H1 == AppendEvent(st0.H, lid, [s |-> new_start, e |-> new_end,
                                            label |-> new_activity, tmp |-> TRUE])
              H2 == check_for_overlap(H1, lid, new_start, new_end)
              H3 == StripMarkers(H2, lid)
              H4 == check_for_overlap(H3, lid, new_start, new_end)
              H5 == AppendEvent(H4, lid, [s |-> new_start, e |-> new_end,
                                          label |-> new_activity, tmp |-> FALSE])
              H6 == check_for_overlap(H5, lid, new_start, new_end)
          IN  [out |-> "written",
               doc |-> SortRestoreDump(al, ad, [st0 EXCEPT !.H = H6], lid)]

(***************************** delete_event ********************************)
\* entry[1].lower() == "bedtime"
IsBedtimeMutant(label) == label = "Bedtime"
IsBedtime(label) == label \in {"Bedtime", "bedtime", "BEDTIME"}

\* the for loop of delete_event: the first entry whose start string equals start
\* and whose time range has a "-"; 0 when the loop ends without a break
RECURSIVE FindEvent(_, _, _)
FindEvent(evs, i, start) ==
    IF i > Len(evs) THEN 0
    ELSE IF StartOf(evs[i]) = start /\ HasEnd(evs[i]) THEN i
    ELSE FindEvent(evs, i + 1, start)

\* if i < len(events) - 1, with i the 0-based index of the removed entry and k = i + 1
HasNext(k, n) == k - 1 < n - 1

delete_event(d, al, day, start) ==
    LET ad  == actual_day(al, day)
        st0 == json_load(d)
    IN  IF ad \notin DOMAIN st0.sch THEN [out |-> "nokey", doc |-> d]
        ELSE
          LET lid == st0.sch[ad].id
              k   == FindEvent(EventsOf(st0.H, st0.sch[ad]), 1, start)
          IN  IF k = 0 THEN [out |-> "nomatch", doc |-> d]
              ELSE
                LET H1   == [st0.H EXCEPT !.L[lid] = RemoveAt(@, k)]   \* events.pop(i)
                    n    == Len(H1.L[lid])
                    nid  == H1.L[lid][k]
                    \* next_event[0].split(' - ')[1] has no second part
                    raise == HasNext(k, n) /\ start # StartOf(H1.E[nid]) /\ ~HasEnd(H1.E[nid])
                    H2   == IF HasNext(k, n) /\ start # StartOf(H1.E[nid])
                            THEN [H1 EXCEPT !.E[nid].s = start] ELSE H1
                    pid  == H2.L[lid][k - 1]
                    H3   == IF k > 1 /\ StartOf(H2.E[pid]) # start
                            THEN [H2 EXCEPT !.E[pid].e = start] ELSE H2
                    lastid == H3.L[lid][n]
                    \* events[-1] = [last_start, "Bedtime"]
                    H4   == IF n > 0 /\ IsBedtime(H3.E[lastid].label)
                            THEN [H3 EXCEPT !.E = Append(@, [s |-> StartOf(H3.E[lastid]),
                                                             e |-> NoTime,
                                                             label |-> "Bedtime",
                                                             tmp |-> FALSE]),
                                            !.L[lid][n] = Len(H3.E) + 1]
                            ELSE H3
                IN  IF raise THEN [out |-> "raised", doc |-> d]
                    ELSE [out |-> "written", doc |-> json_dump([st0 EXCEPT !.H = H4])]

(***************************** inputs **************************************)
\* the minutes of the day the model draws times from:
\* 9:00 AM, 10:00 AM, 9:00 PM, 1:00 AM, 2:00 AM
Grid == {540, 600, 1260, 60, 120}

\* time strings as typed, and as strftime writes them
TypedTimes == {Typed(m) : m \in Grid}
StoredTimes == TypedTimes \cup {strftime(m) : m \in Grid}

\* a new interval ends after it starts, within the logical day (5 AM to 5 AM)
ValidInterval(s, e) == LogicalDt(s) < LogicalDt(e)

Days == {"Monday", "Tuesday"}
NewLabels == {"Gym"}

\* the events the initial documents are made of: ranged events, and the
\* start-only "Bedtime" marker
InitEvents ==
    {[s |-> s, e |-> e, label |-> "Study", tmp |-> FALSE] :
        <<s, e>> \in {p \in TypedTimes \X TypedTimes : ValidInterval(p[1], p[2])}}
    \cup {[s |-> Typed(m), e |-> NoTime, label |-> "Bedtime", tmp |-> FALSE] : m \in {1260, 60}}

\* chronological order by the 5 AM rule
IsSorted(evs) ==
    \A i \in 1..(Len(evs) - 1) : event_key(evs[i]) <= event_key(evs[i + 1])

\* two ranged events whose intervals of the logical day intersect
Overlap(a, b) ==
    /\ HasEnd(a) /\ HasEnd(b)
    /\ LogicalDt(a.s) < LogicalDt(b.e)
    /\ LogicalDt(b.s) < LogicalDt(a.e)

PairwiseDisjoint(evs) ==
    \A i, j \in 1..Len(evs) : i # j => ~Overlap(evs[i], evs[j])

SortedLists == {l \in UNION {[1..n -> InitEvents] : n \in 0..MaxLen} : IsSorted(l)}

NoAliases == <<>>
MWAlias == <<[name |-> "MW", days |-> <<"Monday", "Wednesday">>]>>

\* the documents of the model, over lists drawn from Lists:
\* no alias; two member days that reference the template; a first member day
\* with a concrete list of its own; a member day missing from the document
Configs(Lists) ==
    {[al |-> NoAliases, d |-> ("Tuesday" :> ListVal(x))] : x \in Lists}
    \cup {[al |-> MWAlias,
           d  |-> ("Monday" :> RefVal("MW") @@ "Wednesday" :> RefVal("MW")
                   @@ "MW" :> ListVal(x))] : x \in Lists}
    \cup {[al |-> MWAlias,
           d  |-> ("Monday" :> ListVal(<<[s |-> Typed(540), e |-> Typed(600),
                                          label |-> "Own", tmp |-> FALSE]>>)
                   @@ "Wednesday" :> RefVal("MW") @@ "MW" :> ListVal(x))] : x \in Lists}
    \cup {[al |-> MWAlias,
           d  |-> ("Wednesday" :> RefVal("MW") @@ "MW" :> ListVal(x))] : x \in Lists}

\* the document {}
EmptyDoc == [x \in {} |-> RefVal("")]

\* winter2025.json and config.json exist; config.json holds dark_mode false
AllPresent == [schedule |-> TRUE, config |-> TRUE, dark_mode |-> FALSE]

InitLast == [op |-> "init", day |-> "", start |-> NoTime, ns |-> NoTime, ne |-> NoTime,
             label |-> "", out |-> "", kept |-> <<>>, ret |-> <<>>]

InitFrom(Lists) ==
    /\ \E c \in Configs(Lists) : doc = c.d /\ aliases = c.al
    /\ pre = doc
    /\ last = InitLast
    /\ files = AllPresent

Init == InitFrom(SortedLists)

(***************************** actions *************************************)
Add(day, ns, ne, act) ==
    LET r == add_event_to_json(doc, aliases, day, ns, ne, act)
    IN  /\ doc' = r.doc
        /\ pre' = doc
        /\ last' = [op |-> "add", day |-> day, start |-> NoTime, ns |-> ns, ne |-> ne,
                    label |-> act, out |-> r.out, kept |-> <<>>, ret |-> <<>>]
        /\ UNCHANGED <<aliases, files>>

Update(day, old_start, ns, ne, act) ==
    LET r == update_json_schedule(doc, aliases, day, old_start, ns, ne, act)
    IN  /\ doc' = r.doc
        /\ pre' = doc
        /\ last' = [op |-> "update", day |-> day, start |-> old_start, ns |-> ns,
                    ne |-> ne, label |-> act, out |-> r.out, kept |-> <<>>, ret |-> <<>>]
        /\ UNCHANGED <<aliases, files>>

Delete(day, start) ==
    LET r == delete_event(doc, aliases, day, start)
    IN  /\ doc' = r.doc
        /\ pre' = doc
        /\ last' = [op |-> "delete", day |-> day, start |-> start, ns |-> NoTime,
                    ne |-> NoTime, label |-> "", out |-> r.out, kept |-> <<>>, ret |-> <<>>]
        /\ UNCHANGED <<aliases, files>>

\* no operation has run yet: the model follows one operation from every
\* initial document
Fresh == last.op = "init"

Next ==
    \/ \E day \in Days, ns \in TypedTimes, ne \in TypedTimes, act \in NewLabels :
          Fresh /\ ValidInterval(ns, ne) /\ Add(day, ns, ne, act)
    \/ \E day \in Days, old \in StoredTimes, ns \in TypedTimes, ne \in TypedTimes,
          act \in NewLabels :
          Fresh /\ ValidInterval(ns, ne) /\ Update(day, old, ns, ne, act)
    \/ \E day \in Days, start \in StoredTimes : Fresh /\ Delete(day, start)

\* one operation on a document whose lists are sorted
Spec == Init /\ [][Next]_vars

\* check_for_overlap(day, start, end, schedule) applied to a day list of the
\* loaded document; kept lists, for every event left in the list, the position
\* it had before the call
CheckOverlapAs(op, day, ns, ne) ==
    LET st  == json_load(doc)
        lid == st.sch[day].id
        H1  == check_for_overlap(st.H, lid, ns, ne)
        old == st.H.L[lid]
        new == H1.L[lid]
    IN  /\ doc' = json_dump([st EXCEPT !.H = H1])
        /\ pre' = doc
        /\ last' = [op |-> op, day |-> day, start |-> NoTime,
                    ns |-> ns, ne |-> ne, label |-> "", out |-> "",
                    kept |-> AsSeq([j \in 1..Len(new) |->
                                     CHOOSE i \in 1..Len(old) : old[i] = new[j]]),
                    ret |-> <<>>]
        /\ UNCHANGED <<aliases, files>>

CheckOverlap(day, ns, ne) == CheckOverlapAs("check_for_overlap", day, ns, ne)

NextOverlap ==
    \E day \in DOMAIN doc, ns \in TypedTimes, ne \in TypedTimes :
        Fresh /\ doc[day].kind = "list" /\ ValidInterval(ns, ne) /\ CheckOverlap(day, ns, ne)

\* check_for_overlap on the sorted day lists of the documents
SpecOverlap == Init /\ [][NextOverlap]_vars

\* the entry delete_event(day, start) removes from the list under key ad of d
Popped(d, ad, start) ==
    LET evs == IF ad \in DOMAIN d /\ d[ad].kind = "list" THEN d[ad].ev ELSE <<>>
    IN  evs[FindEvent(evs, 1, start)]

\* add_event_to_json(day, s, e, label) with the entry the delete_event before it
\* removed; pre stays the document before the delete
Reinsert ==
    LET X == Popped(pre, actual_day(aliases, last.day), last.start)
        r == add_event_to_json(doc, aliases, last.day, X.s, X.e, X.label)
    IN  /\ doc' = r.doc
        /\ pre' = pre
        /\ last' = [InitLast EXCEPT !.op = "reinsert", !.day = last.day, !.start = last.start,
                                    !.ns = X.s, !.ne = X.e, !.label = X.label,
                                    !.out = r.out]
        /\ UNCHANGED <<aliases, files>>

NextRoundTrip ==
    \/ \E day \in Days, start \in StoredTimes : Fresh /\ Delete(day, start)
    \/ last.op = "delete" /\ last.out = "written" /\ Reinsert

\* delete_event, then add_event_to_json of the deleted entry
SpecRoundTrip == Init /\ [][NextRoundTrip]_vars

\* what the caller of expand_schedule holds afterwards: the expanded days, and
\* the alias templates of the schedule it passed
ExpandedView(al, st) ==
    LET tpl == AliasNames(al) \cap DOMAIN st.sch
    IN  [k \in DOMAIN st.exp \cup tpl |->
            IF k \in DOMAIN st.exp THEN st.exp[k] ELSE st.sch[k]]

\* expand_schedule(schedule), then check_for_overlap(day, start, end, expanded)
\* on a member day that references its alias: pre is the expanded schedule and
\* the templates before check_for_overlap edits the day, doc the same afterwards
ExpandEdit(day, ns, ne) ==
    LET st  == expand_schedule(aliases, json_load(doc))
        lid == st.exp[day].id
        H1  == check_for_overlap(st.H, lid, ns, ne)
        v   == ExpandedView(aliases, st)
    IN  /\ doc' = json_dump([st EXCEPT !.H = H1, !.sch = v])
        /\ pre' = json_dump([st EXCEPT !.sch = v])
        /\ last' = [InitLast EXCEPT !.op = "expand_edit", !.day = day, !.ns = ns, !.ne = ne]
        /\ UNCHANGED <<aliases, files>>

\* expand_schedule(schedule) alone: doc is the schedule the caller passed, with
\* the alias templates as expand_schedule reassigned them
Expand ==
    /\ doc' = json_dump(expand_schedule(aliases, json_load(doc)))
    /\ pre' = doc
    /\ last' = [InitLast EXCEPT !.op = "expand_schedule"]
    /\ UNCHANGED <<aliases, files>>

NextExpand ==
    \/ \E day \in DOMAIN doc, ns \in TypedTimes, ne \in TypedTimes :
          /\ Fresh /\ doc[day].kind = "ref" /\ ValidInterval(ns, ne)
          /\ ExpandEdit(day, ns, ne)
    \/ Fresh /\ Expand

\* expand_schedule, alone or followed by one edit of an expanded member day
SpecExpand == Init /\ [][NextExpand]_vars

\* day lists in any order
RECURSIVE ListsUpTo(_)
ListsUpTo(n) ==
    IF n = 0 THEN {<<>>}
    ELSE LET S == ListsUpTo(n - 1)
         IN  S \cup {Append(l, ev) : l \in {x \in S : Len(x) = n - 1}, ev \in InitEvents}

AnyLists == ListsUpTo(MaxLen)

\* load_aliases(): config.get("aliases", {}), or {} when config.json is missing
load_aliases(fs, al) ==
    [out |-> "returned", ret |-> IF fs.config THEN al ELSE <<>>]

\* load_preferences(): the content of config.json, or the default when it is
\* missing
load_preferences(fs, al) ==
    [out |-> "returned",
     ret |-> IF fs.config THEN [dark_mode |-> fs.dark_mode, aliases |-> al]
             ELSE [dark_mode |-> FALSE]]

\* load_schedule(): open(filename) is not guarded, its FileNotFoundError reaches
\* the caller, and so does a ValueError of sort_schedule
LoadScheduleFile(fs, d, al) ==
    LET als == load_aliases(fs, al).ret
        st  == expand_schedule(als, json_load(d))
        r   == load_schedule(d, als)
    IN  IF ~fs.schedule THEN [out |-> "FileNotFoundError", ret |-> <<>>]
        \* a day left holding an alias name: sorted() walks the characters of the
        \* string and event_key's strptime fails on the first one
        ELSE IF \E k \in DOMAIN st.exp : st.exp[k].kind = "ref"
             THEN [out |-> "ValueError", ret |-> <<>>]
        ELSE [out |-> "returned", ret |-> [k \in DOMAIN r |-> ListVal(r[k])]]

\* the documents on disk, each of the two files present or missing
InitLoad ==
    /\ \E c \in Configs(SortedLists) : doc = c.d /\ aliases = c.al
    /\ pre = doc
    /\ last = InitLast
    /\ files \in [schedule : BOOLEAN, config : BOOLEAN, dark_mode : BOOLEAN]

Loads(op, r) ==
    /\ last' = [InitLast EXCEPT !.op = op, !.out = r.out, !.ret = r.ret]
    /\ UNCHANGED <<doc, aliases, pre, files>>

NextLoad ==
    \/ Fresh /\ Loads("load_schedule", LoadScheduleFile(files, doc, aliases))
    \/ Fresh /\ Loads("load_aliases", load_aliases(files, aliases))
    \/ Fresh /\ Loads("load_preferences", load_preferences(files, aliases))

\* one load from the files on disk
SpecLoad == InitLoad /\ [][NextLoad]_vars

(***************************** calculate_duration **************************)
\* an end argument: None, a string that is no time, or a time string
NoneArg == [kind |-> "none", chars |-> "", t |-> NoTime]
StrArg(c) == [kind |-> "str", chars |-> c, t |-> NoTime]
TimeArg(t) == [kind |-> "time", chars |-> "", t |-> t]

\* len(end) for the strings of the model; a time string has 7 or 8 characters
LenOf(e) ==
    IF e.kind = "time" THEN (IF e.t.h >= 10 \/ e.t.z THEN 8 ELSE 7)
    ELSE CASE e.chars = "" -> 0
           [] e.chars = "   " -> 3
           [] e.chars = "9" -> 1
           [] e.chars = "9:00" -> 4
           [] e.chars = "DYNAMIC" -> 7
           [] e.chars = "25:00 PM" -> 8

\* not end or end.strip() == "" or end == "DYNAMIC" or len(end) < 4
EndUnusable(e) ==
    \/ e.kind = "none"
    \/ e.kind = "str" /\ e.chars \in {"", "   ", "DYNAMIC"}
    \/ LenOf(e) < 4

\* if end_time <= start_time: end_time += datetime.timedelta(days=1)
WrapsMutant(st, et) == et < st
Wraps(st, et) == et <= st

\* round((end_time - start_time).total_seconds() / 3600, 2), in hundredths of an
\* hour: m minutes are 10m/6 hundredths, never halfway between two of them
HoursRounded(st, et) ==
    LET m == (IF Wraps(st, et) THEN et + MinutesPerDay ELSE et) - st
    IN  ((10 * m) + 3) \div 6

\* schedule_gui.calculate_duration(start, end=None)
gui_calculate_duration(start, e) ==
    IF EndUnusable(e) THEN [out |-> "returned", val |-> 0]
    ELSE IF e.kind # "time" THEN [out |-> "returned", val |-> 0]   \* except ValueError
    ELSE [out |-> "returned", val |-> HoursRounded(strptime(start), strptime(e.t))]

\* scheduler.calculate_duration(start, end): strptime is not guarded
calculate_duration(start, e) ==
    IF e.kind = "none" THEN [out |-> "TypeError", val |-> 0]
    ELSE IF e.kind # "time" THEN [out |-> "ValueError", val |-> 0]
    ELSE [out |-> "returned", val |-> HoursRounded(strptime(start), strptime(e.t))]

\* minutes of the day the duration functions are given
DurationGrid == {0, 1, 59, 299, 300, 540, 720, 721, 1260, 1439}
DurationTimes == {Typed(m) : m \in DurationGrid}
EndArgs ==
    {NoneArg} \cup {StrArg(c) : c \in {"", "   ", "9", "9:00", "DYNAMIC", "25:00 PM"}}
              \cup {TimeArg(t) : t \in DurationTimes}

\* the arguments of one call: the start in last.ns, the end in last.ret.end
InitDuration ==
    /\ doc = EmptyDoc
    /\ aliases = NoAliases
    /\ pre = doc
    /\ files = AllPresent
    /\ \E s \in DurationTimes, e \in EndArgs :
          last = [InitLast EXCEPT !.ns = s, !.ret = [end |-> e, val |-> 0]]

Duration(op, r) ==
    /\ last' = [last EXCEPT !.op = op, !.out = r.out, !.ret.val = r.val]
    /\ UNCHANGED <<doc, aliases, pre, files>>

NextDuration ==
    \/ Fresh /\ Duration("gui.calculate_duration", gui_calculate_duration(last.ns, last.ret.end))
    \/ Fresh /\ Duration("calculate_duration", calculate_duration(last.ns, last.ret.end))

\* one call of a duration function
SpecDuration == InitDuration /\ [][NextDuration]_vars

\* a day list in any order, as update_json_schedule hands to check_for_overlap
\* after appending to it
InitAnyDay ==
    /\ \E l \in AnyLists : doc = ("Tuesday" :> ListVal(l))
    /\ aliases = NoAliases
    /\ pre = doc
    /\ last = InitLast
    /\ files = AllPresent

\* check_for_overlap called again with the same day and interval on the list the
\* call before it left
CheckAgain == CheckOverlapAs("check_again", last.day, last.ns, last.ne)

NextTwice ==
    \/ \E day \in DOMAIN doc, ns \in TypedTimes, ne \in TypedTimes :
          Fresh /\ ValidInterval(ns, ne) /\ CheckOverlap(day, ns, ne)
    \/ last.op = "check_for_overlap" /\ CheckAgain

\* check_for_overlap twice with the same interval
SpecTwice == InitAnyDay /\ [][NextTwice]_vars

\* a schedule of event lists, as load_schedule and add_event_to_json hand to
\* sort_schedule
InitSort ==
    /\ \E l \in AnyLists :
       \E m \in {<<>>} \cup {x \in AnyLists : Len(x) = 2 /\ x[1].s = x[2].s} :
          doc = ("Monday" :> ListVal(m) @@ "Tuesday" :> ListVal(l))
    /\ aliases = NoAliases
    /\ pre = doc
    /\ last = InitLast
    /\ files = AllPresent

SortSchedule ==
    /\ doc' = sort_schedule(doc)
    /\ pre' = doc
    /\ last' = [InitLast EXCEPT !.op = "sort_schedule"]
    /\ UNCHANGED <<aliases, files>>

NextSort == Fresh /\ SortSchedule

\* sort_schedule on lists in any order
SpecSort == InitSort /\ [][NextSort]_vars

\* "Bedtime" events stored with an end, as add_event_to_json writes them, under
\* the spellings that lower() maps to "bedtime"
BedtimeRanged ==
    {[s |-> Typed(1260), e |-> Typed(60), label |-> l, tmp |-> FALSE] :
        l \in {"Bedtime", "bedtime", "BEDTIME"}}
    \cup {[s |-> Typed(60), e |-> Typed(120), label |-> "bedtime", tmp |-> FALSE]}

BedtimeLists ==
    {l \in UNION {[1..n -> InitEvents \cup BedtimeRanged] : n \in 0..MaxLen} : IsSorted(l)}

NextBedtime == \E day \in Days, start \in StoredTimes : Fresh /\ Delete(day, start)

\* one delete_event on a document that may hold ranged "Bedtime" events
SpecBedtime == InitFrom(BedtimeLists) /\ [][NextBedtime]_vars

\* documents in which the first member day of the alias holds a list of its
\* own, next to the template and a member day that references it
ShortLists == {l \in SortedLists : Len(l) <= 1}

InitOwn ==
    /\ \E own \in ShortLists, x \in ShortLists :
          doc = ("Monday" :> ListVal(own) @@ "Wednesday" :> RefVal("MW")
                 @@ "MW" :> ListVal(x))
    /\ aliases = MWAlias
    /\ pre = doc
    /\ last = InitLast
    /\ files = AllPresent

\* one operation on a document whose first member day has its own list
SpecOwn == InitOwn /\ [][Next]_vars

(***************************** adjust_schedule *****************************)
days_of_week ==
    <<"Monday", "Tuesday", "Wednesday", "Thursday", "Friday", "Saturday", "Sunday">>

\* get_next_day_start_time(schedule, current_day): the start of the first event
\* of the next day of the week; NoTime stands for None
get_next_day_start_time(sch, current_day) ==
    IF ~Member(current_day, days_of_week) THEN NoTime
    ELSE
      LET i  == CHOOSE j \in 1..Len(days_of_week) : days_of_week[j] = current_day
          nd == days_of_week[(i % Len(days_of_week)) + 1]
      IN  IF nd \in DOMAIN sch /\ Len(sch[nd]) > 0 THEN StartOf(sch[nd][1]) ELSE NoTime

\* the (start_time, end_time, activity) tuple adjust_schedule appends for an
\* entry: its own end, for "Bedtime" the next day's first start or "5:00 AM",
\* otherwise one hour after the start as strftime writes it
AdjustEntry(sch, day, ev) ==
    IF HasEnd(ev) THEN ev
    ELSE IF IsBedtime(ev.label)
         THEN LET nx == get_next_day_start_time(sch, day)
              IN  [ev EXCEPT !.e = IF nx # NoTime THEN nx ELSE Typed(DayStartHour * 60)]
    ELSE [ev EXCEPT !.e = strftime(strptime(ev.s) + 60)]

\* the keys of a loaded schedule in the order of the dict
RECURSIVE KeysFrom(_, _)
KeysFrom(sch, i) ==
    IF i > Len(KeyOrder) THEN <<>>
    ELSE (IF KeyOrder[i] \in DOMAIN sch THEN <<KeyOrder[i]>> ELSE <<>>) \o KeysFrom(sch, i + 1)

\* the for loop of adjust_schedule over days[i..]: day_schedule is
\* schedule.get(actual_day, []) and the result is stored under actual_day
RECURSIVE AdjustDays(_, _, _, _, _)
AdjustDays(sch, al, days, i, adjusted) ==
    IF i > Len(days) THEN adjusted
    ELSE
      LET day == days[i]
          ad  == actual_day(al, day)
          day_schedule == IF ad \in DOMAIN sch THEN sch[ad] ELSE <<>>
          out == AsSeq([j \in 1..Len(day_schedule) |-> AdjustEntry(sch, day, day_schedule[j])])
      IN  AdjustDays(sch, al, days, i + 1,
                     [k \in (DOMAIN adjusted) \cup {ad} |-> IF k = ad THEN out ELSE adjusted[k]])

adjust_schedule(sch, al) == AdjustDays(sch, al, KeysFrom(sch, 1), 1, [k \in {} |-> <<>>])

\* a start-only entry that is no "Bedtime"
WakeEvent == [s |-> Typed(540), e |-> NoTime, label |-> "Wake", tmp |-> FALSE]

AdjustLists ==
    {l \in UNION {[1..n -> InitEvents \cup {WakeEvent}] : n \in 0..MaxLen} : IsSorted(l)}

\* update_schedule of the GUI: full_schedule = load_schedule(), then
\* full_schedule = adjust_schedule(full_schedule)
LoadAndAdjust ==
    LET loaded == load_schedule(doc, aliases)
    IN  /\ last' = [InitLast EXCEPT !.op = "adjust_schedule", !.out = "returned",
                                    !.ret = [loaded |-> loaded,
                                             adjusted |-> adjust_schedule(loaded, aliases)]]
        /\ UNCHANGED <<doc, aliases, pre, files>>

NextAdjust == Fresh /\ LoadAndAdjust

\* the schedule the GUI displays for one document
SpecAdjust == InitFrom(AdjustLists) /\ [][NextAdjust]_vars

(***************************** save_new_event ******************************)
\* re.match(r"^(0?[1-9]|1[0-2]):[0-5][0-9] (AM|PM)$", time_str)
validate_time_format(t) ==
    /\ t.h \in 1..12
    /\ t.z => t.h <= 9
    /\ t.mi \in 0..59

\* the characters of a time string, as code points:
\* "0".."9" are 48..57, ":" is 58, " " is 32, "A" 65, "M" 77, "P" 80
Chars(t) ==
    (IF t.h >= 10 THEN <<48 + (t.h \div 10), 48 + (t.h % 10)>>
     ELSE IF t.z THEN <<48, 48 + t.h>>
     ELSE <<48 + t.h>>)
    \o <<58, 48 + (t.mi \div 10), 48 + (t.mi % 10), 32, IF t.pm THEN 80 ELSE 65, 77>>

\* a >= b on Python strings: the first differing character decides, and a
\* string is greater than each of its proper prefixes
RECURSIVE StrGe(_, _)
StrGe(a, b) ==
    IF b = <<>> THEN TRUE
    ELSE IF a = <<>> THEN FALSE
    ELSE IF Head(a) # Head(b) THEN Head(a) > Head(b)
    ELSE StrGe(Tail(a), Tail(b))

\* if new_start >= new_end: "End time must be later than start time."
TimeError(new_start, new_end) == StrGe(Chars(new_start), Chars(new_end))

\* save_new_event of the add-event dialog: the outcome and the document left
save_new_event(d, al, day, new_start, new_end, new_activity) ==
    IF ~validate_time_format(new_start) \/ ~validate_time_format(new_end)
       \/ new_activity = ""
    THEN [out |-> "invalid", doc |-> d]
    ELSE IF TimeError(new_start, new_end) THEN [out |-> "time_error", doc |-> d]
    ELSE [out |-> "added",
          doc |-> add_event_to_json(d, al, day, new_start, new_end, new_activity).doc]

\* what the entries of the dialog hold: times typed with and without a leading
\* zero, noon, and a string that is no 12-hour time ("13:00 AM")
DialogTimes ==
    TypedTimes \cup {Typed(720), strftime(540), strftime(60),
                     [h |-> 13, mi |-> 0, pm |-> FALSE, z |-> FALSE]}

SaveNewEvent(day, ns, ne, act) ==
    LET r == save_new_event(doc, aliases, day, ns, ne, act)
    IN  /\ doc' = r.doc
        /\ pre' = doc
        /\ last' = [InitLast EXCEPT !.op = "save_new_event", !.day = day, !.ns = ns,
                                    !.ne = ne, !.label = act, !.out = r.out]
        /\ UNCHANGED <<aliases, files>>

NextDialog ==
    \E day \in Days, ns \in DialogTimes, ne \in DialogTimes, act \in NewLabels \cup {""} :
        Fresh /\ SaveNewEvent(day, ns, ne, act)

\* one press of Save in the add-event dialog
SpecDialog == InitFrom(ShortLists) /\ [][NextDialog]_vars

\* day lists that hold single-time entries between ranged events: up to
\* MaxLen + 1 events, so that a removed event can have an entry after it that is
\* not the last one
SingleEvents ==
    {WakeEvent,
     [s |-> Typed(540), e |-> Typed(600), label |-> "Study", tmp |-> FALSE],
     [s |-> Typed(600), e |-> Typed(1260), label |-> "Study", tmp |-> FALSE],
     [s |-> Typed(1260), e |-> NoTime, label |-> "Bedtime", tmp |-> FALSE],
     [s |-> Typed(60), e |-> NoTime, label |-> "Bedtime", tmp |-> FALSE]}

SingleLists ==
    {l \in UNION {[1..n -> SingleEvents] : n \in 0..(MaxLen + 1)} : IsSorted(l)}

\* one delete_event on a day list with single-time entries
SpecSingle == InitFrom(SingleLists) /\ [][NextBedtime]_vars

(***************************** properties **********************************)
\* the key the last operation resolved its day to
LastKey == actual_day(aliases, last.day)

\* the list stored under a key of a document (empty when the key holds none)
ListAt(d, k) == IF k \in DOMAIN d /\ d[k].kind = "list" THEN d[k].ev ELSE <<>>

\* the event an add or an update is asked to store
NewEvent == [s |-> last.ns, e |-> last.ne, label |-> last.label, tmp |-> FALSE]

Count(evs, ev) == Cardinality({i \in 1..Len(evs) : evs[i] = ev})

\* C1: after add_event_to_json on a day whose list is sorted, the resolved day's
\* persisted list holds the new event and no other event of it overlaps the new
\* interval [newStart, newEnd)
C1_NoOverlapAfterAdd ==
    (last.op = "add" /\ IsSorted(ListAt(pre, LastKey))) =>
        LET evs == ListAt(doc, LastKey)
        IN  \E i \in 1..Len(evs) :
               /\ evs[i] = NewEvent
               /\ \A j \in 1..Len(evs) : j # i => ~Overlap(evs[j], NewEvent)

\* an add whose interval runs past midnight, on a list that held an event
\* overlapping it and that still holds another event afterwards
C1_Witness ==
    /\ last.op = "add"
    /\ LogicalDt(last.ne) > MinutesPerDay
    /\ \E i \in 1..Len(ListAt(pre, LastKey)) : Overlap(ListAt(pre, LastKey)[i], NewEvent)
    /\ Len(ListAt(doc, LastKey)) >= 2

\* the resolved day's list held an event whose start string is the given start
HadStart == \E i \in 1..Len(ListAt(pre, LastKey)) : StartOf(ListAt(pre, LastKey)[i]) = last.start

\* C2: after update_json_schedule completes on a day that has an event starting
\* at old_start, the resolved day's list holds exactly one event with the new
\* time range and the given label
C2_EditedEventOnce ==
    (last.op = "update" /\ last.out = "written" /\ HadStart) =>
        Count(ListAt(doc, LastKey), NewEvent) = 1

\* C3: after update_json_schedule, the event that started at old_start before
\* the call is no longer in the resolved day's list
C3_OldEventRemoved ==
    (last.op = "update" /\ last.out = "written") =>
        \A i \in 1..Len(ListAt(pre, LastKey)) :
            StartOf(ListAt(pre, LastKey)[i]) = last.start =>
                Count(ListAt(doc, LastKey), ListAt(pre, LastKey)[i]) = 0

\* C4: when no event of the resolved day starts at the given start, update and
\* delete leave the persisted document as it was
C4_NoMatchNoWrite ==
    (last.op \in {"update", "delete"} /\ ~HadStart) => doc = pre

\* the events of every list of a document are pairwise non-overlapping
AllDisjoint(d) == \A k \in DOMAIN d : PairwiseDisjoint(ListAt(d, k))

\* C5: an operation on a document whose day lists are pairwise non-overlapping
\* leaves every day list pairwise non-overlapping
C5_DisjointPreserved ==
    (last.op # "init" /\ AllDisjoint(pre)) => AllDisjoint(doc)

\* an event of a list
InList(evs, ev) == \E i \in 1..Len(evs) : evs[i] = ev

\* what load_schedule returns for the persisted document
Loaded == load_schedule(doc, aliases)

\* C6: after add_event_to_json the persisted document holds the new entry in
\* the list under the day's resolved key, and load_schedule shows it on the
\* requested day
C6_AddPersistedAndLoaded ==
    last.op = "add" =>
        /\ InList(ListAt(doc, LastKey), NewEvent)
        /\ last.day \in DOMAIN Loaded
        /\ InList(Loaded[last.day], NewEvent)

\* the resolved day's list before and after a delete
OldDay == ListAt(pre, LastKey)
NewDay == ListAt(doc, LastKey)

\* the position of the event a delete removes: the first ranged event whose
\* start string is the given start
IsTarget(ev) == HasEnd(ev) /\ ev.s = last.start
DeletedAt ==
    CHOOSE k \in 1..Len(OldDay) :
        IsTarget(OldDay[k]) /\ \A j \in 1..(k - 1) : ~IsTarget(OldDay[j])

\* C7: when delete_event removes the event with start s, an event immediately
\* before it gets the end s, and an event immediately after it (the last event
\* of the list included) gets the start s and keeps its end
C7_DeleteFillsGap ==
    (last.op = "delete" /\ last.out = "written") =>
        /\ Len(NewDay) = Len(OldDay) - 1
        /\ DeletedAt > 1 => NewDay[DeletedAt - 1].e = last.start
        /\ DeletedAt < Len(OldDay) =>
              /\ NewDay[DeletedAt].s = last.start
              /\ NewDay[DeletedAt].e = OldDay[DeletedAt + 1].e

\* the day list check_for_overlap was given, and the list it left
OldList == ListAt(pre, last.day)
NewList == ListAt(doc, last.day)

\* the new interval and an existing event as times of the logical day
NewStartDt == LogicalDt(last.ns)
NewEndDt == LogicalDt(last.ne)

\* the event at position i of the old list is still in the list, as ev
KeptAs(i, ev) == \E j \in 1..Len(last.kept) : last.kept[j] = i /\ NewList[j] = ev
Removed(i) == \A j \in 1..Len(last.kept) : last.kept[j] # i

\* the new interval covers the event
Covered(ev) ==
    HasEnd(ev) /\ NewStartDt <= LogicalDt(ev.s) /\ NewEndDt >= LogicalDt(ev.e)

\* C8: check_for_overlap removes from the sorted day list every event with
\* newStart <= existingStart and newEnd >= existingEnd, as times of the logical
\* day
C8_CoveredRemoved ==
    last.op = "check_for_overlap" =>
        \A i \in 1..Len(OldList) : Covered(OldList[i]) => Removed(i)

\* a new interval that runs past midnight covers an event, and the list keeps
\* another one
C8_Witness ==
    /\ last.op = "check_for_overlap"
    /\ NewEndDt > MinutesPerDay
    /\ \E i \in 1..Len(OldList) : Covered(OldList[i])
    /\ Len(NewList) >= 1

\* the new interval starts inside the event
StartsInside(ev) ==
    HasEnd(ev) /\ LogicalDt(ev.s) < NewStartDt /\ NewStartDt < LogicalDt(ev.e)

\* C9: check_for_overlap keeps every event with existingStart < newStart <
\* existingEnd, with its start unchanged and its end set to newStart
C9_StartInsideShortened ==
    last.op = "check_for_overlap" =>
        \A i \in 1..Len(OldList) :
            StartsInside(OldList[i]) => KeptAs(i, [OldList[i] EXCEPT !.e = last.ns])

\* a new interval that lies strictly inside an existing event
C9_Witness ==
    /\ last.op = "check_for_overlap"
    /\ \E i \in 1..Len(OldList) :
          StartsInside(OldList[i]) /\ NewEndDt < LogicalDt(OldList[i].e)

\* the event starts at or after the new end
IsAfter(ev) == HasEnd(ev) /\ LogicalDt(ev.s) >= NewEndDt
HasAfter == \E i \in 1..Len(OldList) : IsAfter(OldList[i])
FirstAfter ==
    CHOOSE i \in 1..Len(OldList) :
        IsAfter(OldList[i]) /\ \A j \in 1..(i - 1) : ~IsAfter(OldList[j])

\* no event after the first one that starts at or after the new end is
\* modified or removed
LaterUntouched ==
    \A i \in (FirstAfter + 1)..Len(OldList) : KeptAs(i, OldList[i])

\* C10 as stated: the first event with existingStart >= newEnd gets the start
\* newEnd and keeps its end, and no later event is modified or removed
C10_FirstAfterPulled ==
    (last.op = "check_for_overlap" /\ HasAfter) =>
        /\ KeptAs(FirstAfter, [OldList[FirstAfter] EXCEPT !.s = last.ne])
        /\ LaterUntouched

\* the event starts before 5 AM and the new interval ends after 6:59 PM
OvernightPair(ev) ==
    /\ strptime(ev.s) \div 60 < DayStartHour
    /\ strptime(last.ne) \div 60 > OvernightEndHour

\* C10: check_for_overlap stops at the first ranged event with existingStart >=
\* newEnd, so no later event is modified or removed; that event keeps its end,
\* and its start becomes newEnd, written with a two-digit hour, only when it
\* starts before 5 AM and newEnd is at 7 PM or later; otherwise it is unchanged
C10_FirstAfterOvernightOnly ==
    (last.op = "check_for_overlap" /\ HasAfter) =>
        /\ KeptAs(FirstAfter,
                  IF OvernightPair(OldList[FirstAfter])
                  THEN [OldList[FirstAfter] EXCEPT !.s = strftime(strptime(last.ne))]
                  ELSE OldList[FirstAfter])
        /\ LaterUntouched

\* an event before 5 AM is pulled back to an evening end, and an event after
\* it is left alone
C10_Witness ==
    /\ last.op = "check_for_overlap"
    /\ HasAfter
    /\ OvernightPair(OldList[FirstAfter])
    /\ FirstAfter < Len(OldList)
    /\ NewList[Len(NewList)] = OldList[Len(OldList)]

\* the new interval ends inside the event and does not start inside it
EndsInside(ev) ==
    /\ HasEnd(ev)
    /\ LogicalDt(ev.s) < NewEndDt /\ NewEndDt < LogicalDt(ev.e)
    /\ NewStartDt <= LogicalDt(ev.s)

\* C11: check_for_overlap keeps every event with existingStart < newEnd <
\* existingEnd that the new interval does not start inside of, with its end
\* unchanged and its start set to newEnd
C11_EndInsidePushed ==
    last.op = "check_for_overlap" =>
        \A i \in 1..Len(OldList) :
            EndsInside(OldList[i]) => KeptAs(i, [OldList[i] EXCEPT !.s = last.ne])

\* a new interval ends inside an event that runs past midnight, after an event
\* it covers
C11_Witness ==
    /\ last.op = "check_for_overlap"
    /\ \E i \in 1..Len(OldList) :
          EndsInside(OldList[i]) /\ LogicalDt(OldList[i].e) > MinutesPerDay
    /\ Len(NewList) < Len(OldList)

\* the start is in [12:00 AM, 5:00 AM)
BeforeDayStart(ev) == strptime(ev.s) \div 60 < DayStartHour

\* C12: in every list sort_schedule returns, the events starting at or after
\* 5:00 AM precede those starting before 5:00 AM, starts ascend within each of
\* the two groups, and the list holds the events it was given, duplicate starts
\* included
C12_SortedByDayStart ==
    last.op = "sort_schedule" =>
        \A day \in DOMAIN doc :
            LET old == ListAt(pre, day)
                new == ListAt(doc, day)
            IN  /\ Len(new) = Len(old)
                /\ \A i \in 1..Len(old) : Count(new, old[i]) = Count(old, old[i])
                /\ \A i \in 1..Len(new) : \A j \in (i + 1)..Len(new) :
                      /\ BeforeDayStart(new[i]) => BeforeDayStart(new[j])
                      /\ BeforeDayStart(new[i]) = BeforeDayStart(new[j])
                            => strptime(new[i].s) <= strptime(new[j].s)

\* a list given with an event before 5 AM ahead of an event after it, and a
\* list of two different events of the same start
C12_Witness ==
    /\ last.op = "sort_schedule"
    /\ LET old == ListAt(pre, "Tuesday")
       IN  /\ Len(old) >= 2
           /\ BeforeDayStart(old[1]) /\ ~BeforeDayStart(old[2])
    /\ LET m == ListAt(pre, "Monday")
       IN  Len(m) = 2 /\ m[1].s = m[2].s /\ m[1] # m[2]

\* C13: after expand_schedule, a change of an event in one member day's
\* expanded list changes no event of another day's expanded list or of the
\* alias template
C13_ExpandedNotShared ==
    last.op = "expand_edit" =>
        \A k \in DOMAIN doc \ {last.day} : doc[k] = pre[k]

\* C14: expand_schedule, which reassigns every alias template from its first
\* member day, leaves the template's event list equal to the original one, also
\* when the first member day holds an event list of its own
C14_TemplateRoundTrip ==
    last.op = "expand_schedule" =>
        \A k \in AliasNames(aliases) \cap DOMAIN pre : ListAt(doc, k) = ListAt(pre, k)

\* C15: on a sorted day list of pairwise non-overlapping events, delete_event
\* of an event followed by add_event_to_json of the same start, end and label
\* leaves the persisted day list equal to the list before the delete
C15_DeleteReinsert ==
    (last.op = "reinsert" /\ PairwiseDisjoint(OldDay)) => NewDay = OldDay

\* every event of the list is still in it, at its position
AllKept == last.kept = AsSeq([j \in 1..Len(OldList) |-> j])

KeyWasMissing == LastKey \notin DOMAIN pre

C18_MissingFileNeverFails ==
    /\ (last.op = "load_schedule" /\ ~files.schedule) =>
          (last.out = "returned" /\ DOMAIN last.ret = {})
    /\ (last.op = "load_aliases" /\ ~files.config) =>
          (last.out = "returned" /\ last.ret = <<>>)
    /\ (last.op = "load_preferences" /\ ~files.config) =>
          (last.out = "returned" /\ last.ret = [dark_mode |-> FALSE])

\* a call of one of the two duration functions has returned or raised
DurationCalled == last.op \in {"gui.calculate_duration", "calculate_duration"}

\* C19: for an absent, blank, "DYNAMIC" or malformed end both duration
\* functions return 0.0 and do not raise
C19_BadEndGivesZero ==
    (DurationCalled /\ last.ret.end.kind # "time") =>
        (last.out = "returned" /\ last.ret.val = 0)

\* the minutes from the start to the end of the call, the end taken on the next
\* day when it is not after the start
MinutesApart ==
    LET st == strptime(last.ns)
        et == strptime(last.ret.end.t)
    IN  IF et <= st THEN et + MinutesPerDay - st ELSE et - st

\* C20: for well-formed times both duration functions return the minutes from
\* start to end as hours rounded to 2 decimals, the end taken on the next day
\* when end <= start: equal start and end give 24.0, an end at or before the
\* start gives a result in (0, 24], a later end gives end - start
C20_OvernightWrap ==
    (DurationCalled /\ last.ret.end.kind = "time") =>
        LET st == strptime(last.ns)
            et == strptime(last.ret.end.t)
            v == last.ret.val
        IN  /\ last.out = "returned"
            /\ 6 * v - 10 * MinutesApart \in -3..3
            /\ (et = st) => v = 2400
            /\ (et <= st) => (v > 0 /\ v <= 2400)
            /\ (et > st) => 6 * v - 10 * (et - st) \in -3..3

\* scheduler.calculate_duration with equal start and end has returned 24.0
C20_Witness ==
    /\ last.op = "calculate_duration"
    /\ last.ret.end.kind = "time"
    /\ strptime(last.ret.end.t) = strptime(last.ns)
    /\ last.out = "returned"
    /\ last.ret.val = 2400

\* an event whose label lower() maps to "bedtime"
LabelledBedtime(ev) == ev.label \in {"Bedtime", "bedtime", "BEDTIME"}

\* the event of the list before a delete that is the last one after it
OldLast ==
    IF DeletedAt <= Len(NewDay) THEN OldDay[Len(NewDay) + 1] ELSE OldDay[Len(NewDay)]

\* C21: after a delete_event that removes an event, a last event of the day
\* list labelled "Bedtime" in any case is stored with its start and no end,
\* whatever end it had before
C21_BedtimeStartOnly ==
    (last.op = "delete" /\ last.out = "written" /\ Len(NewDay) > 0) =>
        LET ev == NewDay[Len(NewDay)]
        IN  (LabelledBedtime(ev) \/ LabelledBedtime(OldLast)) =>
               /\ ~HasEnd(ev)
               /\ ev.s = OldLast.s
               /\ ev.label = "Bedtime"

\* a delete that left last an event stored as "bedtime" with an end
C21_Witness ==
    /\ last.op = "delete"
    /\ last.out = "written"
    /\ Len(NewDay) > 0
    /\ OldLast.label = "bedtime"
    /\ HasEnd(OldLast)
    /\ ~HasEnd(NewDay[Len(NewDay)])

\* every list of a document, under day keys and alias keys, is in 5 AM-rule
\* chronological order
AllSorted(d) == \A k \in DOMAIN d : IsSorted(ListAt(d, k))

\* C22: an add, update or delete on a document whose lists are all in 5 AM-rule
\* chronological order leaves every list of the persisted document in that order
C22_SortednessPreserved ==
    (last.op \in {"add", "update", "delete"} /\ AllSorted(pre)) => AllSorted(doc)

\* C23: an add, update or delete changes, in the persisted document, only the
\* value under the day's resolved key: every other key keeps its value and no
\* other key appears
C23_OtherKeysUnchanged ==
    last.op \in {"add", "update", "delete"} =>
        /\ DOMAIN doc \subseteq DOMAIN pre \cup {LastKey}
        /\ \A k \in DOMAIN pre \ {LastKey} : k \in DOMAIN doc /\ doc[k] = pre[k]

\* C24: for every day of the schedule load_schedule returns, the adjusted
\* schedule holds, under the alias name of a member day and otherwise under the
\* day name, one entry per event of the day's loaded list, in the same order,
\* with the event's start and activity and, when it has one, its end
C24_AdjustKeepsEvents ==
    last.op = "adjust_schedule" =>
        \A day \in DOMAIN last.ret.loaded :
            LET key == actual_day(aliases, day)
                evs == last.ret.loaded[day]
            IN  /\ key \in DOMAIN last.ret.adjusted
                /\ Len(last.ret.adjusted[key]) = Len(evs)
                /\ \A j \in 1..Len(evs) :
                      /\ last.ret.adjusted[key][j].s = evs[j].s
                      /\ last.ret.adjusted[key][j].label = evs[j].label
                      /\ HasEnd(evs[j]) => last.ret.adjusted[key][j].e = evs[j].e

\* C25: for two valid 12-hour times and a non-empty activity, save_new_event
\* calls add_event_to_json exactly when the end time of day is later than the
\* start time of day, and shows "End time must be later than start time."
\* otherwise
C25_RejectsExactlyNotLater ==
    (/\ last.op = "save_new_event"
     /\ validate_time_format(last.ns) /\ validate_time_format(last.ne)
     /\ last.label # "") =>
        /\ last.out = "added" <=> strptime(last.ne) > strptime(last.ns)
        /\ last.out = "time_error" <=> strptime(last.ne) <= strptime(last.ns)

\* the resolved day's list holds a ranged event with the given start
HasTarget == \E k \in 1..Len(OldDay) : IsTarget(OldDay[k])

\* C26: delete_event removes no single-time entry: when the start matches only
\* single-time entries the call ends as a no-match with the document as it
\* was; when a ranged event has the start the call completes, whatever entries
\* are next to it, and every other entry stays in the list
C26_SingleTimeKept ==
    (last.op = "delete" /\ LastKey \in DOMAIN pre) =>
        /\ (HadStart /\ ~HasTarget) => (last.out = "nomatch" /\ doc = pre)
        /\ HasTarget =>
              /\ last.out = "written"
              /\ Len(NewDay) = Len(OldDay) - 1
              /\ \A j \in 1..Len(NewDay) :
                    NewDay[j].label = OldDay[IF j < DeletedAt THEN j ELSE j + 1].label

=============================================================================
